---------------------------- MODULE Spec2Model ----------------------------
(***************************************************************************)
(* A model of books.py: the Open Library ETL pipeline                      *)
(*   BookFetcher.fetch_books -> BookCleaner.process_data / clean_data      *)
(*   -> BookDatabase.save_data / fetch_data -> BookVisualizer              *)
(* and of main(), which drives them.                                       *)
(*                                                                         *)
(* Three specifications are given:                                         *)
(*   Spec         one run of main() against an arbitrary HTTP response,    *)
(*                an arbitrary prior content of table 'books' and of the   *)
(*                output files;                                            *)
(*   SpecCleaner  a BookCleaner object whose two methods are called in     *)
(*                any order by a caller that catches what they raise;      *)
(*   SpecStore    a BookDatabase object whose two methods are called in    *)
(*                any order.                                               *)
(* The three share the definitions of the methods.                         *)
(***************************************************************************)
EXTENDS Integers, Sequences, FiniteSets, TLC

VARIABLES
    pc,               \* position of main(): the statement it executes next
    calls,            \* history: the pipeline methods invoked so far, in order
    exc,              \* the exception the last call propagated to its caller
    ret,              \* the value the last call returned
    stdout,           \* the messages printed so far
    requests,         \* number of HTTP GETs issued
    status,           \* status code of the HTTP response (0: none yet)
    raw_books,        \* BookCleaner.raw_books (main's raw_books)
    cleaned_data,     \* BookCleaner.cleaned_data
    books_csv,        \* content of the file books.csv
    books_json,       \* content of the file books.json
    db_cleaned_data,  \* BookDatabase.cleaned_data
    table_books,      \* the relational table 'books'
    df,               \* BookVisualizer.df (main's df)
    countplot_png,    \* content of ./visuals/countplot.png
    processed,        \* history: cleaned_data as the last process_data left it
    firstClean,       \* history: what the first clean_data after it returned
    nCleans,          \* history: clean_data calls since the last process_data
    nProcess,         \* history: process_data calls so far
    saveOk            \* history: outcome of the last save_data ("none" before)

vars == <<pc, calls, exc, ret, stdout, requests, status, raw_books,
          cleaned_data, books_csv, books_json, db_cleaned_data, table_books,
          df, countplot_png, processed, firstClean, nCleans, nProcess,
          saveOk>>

cleanerVars == <<raw_books, cleaned_data, books_csv, books_json>>
cleanerHist == <<processed, firstClean, nCleans, nProcess>>
storeVars   == <<db_cleaned_data, table_books, saveOk>>
fetchVars   == <<requests, status>>
vizVars     == <<df, countplot_png>>

-----------------------------------------------------------------------------
(* Bounds of the model *)

\* longest list of raw records / longest table given to the store
MaxBooks == 3
\* most method calls made on a BookCleaner or a BookDatabase under test
MaxCalls == 3

-----------------------------------------------------------------------------
(* Python values.  A scalar is a tagged record; a str is its characters.   *)

PyNone      == [t |-> "none", i |-> 0, s |-> <<>>]
NaN         == [t |-> "nan",  i |-> 0, s |-> <<>>]
IntV(n)     == [t |-> "int",  i |-> n, s |-> <<>>]
StrV(chars) == [t |-> "str",  i |-> 0, s |-> chars]

\* bool(v): None, 0 and "" are falsy; a NaN is truthy
Truthy(v) == ~ \/ v.t = "none"
               \/ (v.t = "int" /\ v.i = 0)
               \/ (v.t = "str" /\ v.s = <<>>)

\* pandas' isnull on one cell
IsNull(v) == v.t \in {"none", "nan"}

\* a list or a DataFrame, or None in its place
NoneObj == [none |-> TRUE, cols |-> <<>>, rows |-> <<>>]
PyList(items) == [none |-> FALSE, cols |-> <<>>, rows |-> items]

Columns == <<"title", "author", "first_publish_year", "rating">>

\* pd.DataFrame(books): the columns are the keys of the records, none if
\* the list is empty
DataFrame(books) ==
    [none |-> FALSE,
     cols |-> IF books = <<>> THEN <<>> ELSE Columns,
     rows |-> books]

\* dict.get(key, default)
Get(book, key, default) == IF key \in DOMAIN book THEN book[key] ELSE default

\* sep.join(list) on lists of str
RECURSIVE Join(_, _)
Join(sep, list) ==
    IF list = <<>> THEN <<>>
    ELSE IF Len(list) = 1 THEN list[1]
    ELSE list[1] \o sep \o Join(sep, Tail(list))


-----------------------------------------------------------------------------
(* Exceptions, as the caller of a method sees them *)

NoExc         == [type |-> "none", code |-> 0]
Raise(type)   == [type |-> type, code |-> 0]
HTTPError(c)  == [type |-> "HTTPError", code |-> c]

-----------------------------------------------------------------------------
(* Files *)

NoFile == [exists |-> FALSE, header |-> <<>>, lines |-> <<>>]

\* str(n) for n >= 0
RECURSIVE Digits(_)
Digits(n) ==
    LET d == <<"0", "1", "2", "3", "4", "5", "6", "7", "8", "9">>
    IN  IF n < 10 THEN <<d[n + 1]>> ELSE Digits(n \div 10) \o <<d[(n % 10) + 1]>>

\* the text of one cell of a CSV file: a null is written as the empty field
CsvCell(v) ==
    IF IsNull(v) THEN <<>>
    ELSE IF v.t = "int" THEN Digits(v.i)
    ELSE v.s

RowCells(r) == <<r.title, r.author, r.first_publish_year, r.rating>>

\* DataFrame.to_csv(path, index=False): a header line and a line per row
to_csv(d) ==
    [exists |-> TRUE,
     header |-> d.cols,
     lines  |-> [k \in 1..Len(d.rows) |->
                    [c \in 1..4 |-> CsvCell(RowCells(d.rows[k])[c])]]]

\* the value of one member of a JSON object: a null is written as null
JsonCell(v) == IF IsNull(v) THEN PyNone ELSE v

\* DataFrame.to_json(path, orient="records"): an array of objects
to_json(d) ==
    [exists |-> TRUE,
     header |-> <<>>,
     lines  |-> [k \in 1..Len(d.rows) |->
                    [title              |-> JsonCell(d.rows[k].title),
                     author             |-> JsonCell(d.rows[k].author),
                     first_publish_year |-> JsonCell(d.rows[k].first_publish_year),
                     rating             |-> JsonCell(d.rows[k].rating)]]]

-----------------------------------------------------------------------------
(* BookCleaner *)

\* a filter that forgets the rating
KeepBook_NoRating(title, author, first_publish_year, rating) ==
    Truthy(title) /\ Truthy(author) /\ Truthy(first_publish_year)

\* the filter of process_data: "if title and author and first_publish_year
\* and rating"
KeepBook(title, author, first_publish_year, rating) ==
    Truthy(title) /\ Truthy(author) /\ Truthy(first_publish_year)
        /\ Truthy(rating)

\* one pass of the loop of process_data over raw[i..]; st holds the local
\* list books, self.cleaned_data and the two files
RECURSIVE ProcessLoop(_, _, _)
ProcessLoop(raw, i, st) ==
    IF i > Len(raw) THEN st
    ELSE
        LET book   == raw[i]
            title  == Get(book, "title", PyNone)
            author == StrV(Join(<<",", " ">>, Get(book, "author_name", <<>>)))
            first_publish_year == Get(book, "first_publish_year", PyNone)
            rating == Get(book, "ratings_sortable", StrV(<<>>))
            books  == IF KeepBook(title, author, first_publish_year, rating)
                      THEN Append(st.books,
                                  [title              |-> title,
                                   author             |-> author,
                                   first_publish_year |-> first_publish_year,
                                   rating             |-> rating])
                      ELSE st.books
            data   == DataFrame(books)
        IN  ProcessLoop(raw, i + 1,
                        [books        |-> books,
                         cleaned_data |-> data,
                         csv          |-> to_csv(data),
                         json         |-> to_json(data)])

\* BookCleaner.process_data
process_data ==
    /\ calls' = Append(calls, "process_data")
    /\ ret' = NoneObj
    /\ UNCHANGED <<raw_books, stdout>>
    /\ IF raw_books.none
       THEN \* "for book in None": 'NoneType' object is not iterable
            /\ exc' = Raise("TypeError")
            /\ UNCHANGED <<cleaned_data, books_csv, books_json, cleanerHist>>
       ELSE LET st == ProcessLoop(raw_books.rows, 1,
                                  [books        |-> <<>>,
                                   cleaned_data |-> cleaned_data,
                                   csv          |-> books_csv,
                                   json         |-> books_json])
            IN  /\ exc' = NoExc
                /\ cleaned_data' = st.cleaned_data
                /\ books_csv' = st.csv
                /\ books_json' = st.json
                /\ processed' = st.cleaned_data
                /\ firstClean' = NoneObj
                /\ nCleans' = 0
                /\ nProcess' = nProcess + 1

HasNull(r) == \E c \in 1..4 : IsNull(RowCells(r)[c])

\* number of null cells: DataFrame.isnull().sum().sum()
RECURSIVE CountNull(_)
CountNull(rows) ==
    IF rows = <<>> THEN 0
    ELSE Cardinality({c \in 1..4 : IsNull(RowCells(Head(rows))[c])})
           + CountNull(Tail(rows))

\* a dropna that drops nothing
dropna_Nothing(d) == d

\* DataFrame.dropna(inplace=True): the rows with no null cell, in order
dropna(d) == [d EXCEPT !.rows = SelectSeq(d.rows, LAMBDA r : ~HasNull(r))]

\* the rows not equal to an earlier row, in order
RECURSIVE FirstOccurrences(_, _)
FirstOccurrences(rows, seen) ==
    IF rows = <<>> THEN <<>>
    ELSE IF Head(rows) \in seen THEN FirstOccurrences(Tail(rows), seen)
    ELSE <<Head(rows)>> \o FirstOccurrences(Tail(rows), seen \cup {Head(rows)})

\* a drop_duplicates that drops the first row at every call
drop_duplicates_DropsHead(d) ==
    [d EXCEPT !.rows = IF d.rows = <<>> THEN <<>> ELSE Tail(d.rows)]

\* DataFrame.drop_duplicates(inplace=True), keep="first"
drop_duplicates(d) == [d EXCEPT !.rows = FirstOccurrences(d.rows, {})]

\* a guard that never fires
NotProcessed_Never(d) == FALSE

\* the guard of clean_data: "if self.cleaned_data is None"
NotProcessed(d) == d.none

\* BookCleaner.clean_data
clean_data ==
    /\ calls' = Append(calls, "clean_data")
    /\ UNCHANGED <<raw_books, books_csv, books_json, processed, nProcess>>
    /\ nCleans' = nCleans + 1
    /\ IF NotProcessed(cleaned_data)
       THEN /\ exc' = Raise("ValueError")
            /\ ret' = NoneObj
            /\ UNCHANGED <<cleaned_data, stdout>>
       ELSE LET missing_values == CountNull(cleaned_data.rows)
                duplicates == Len(cleaned_data.rows)
                                - Len(drop_duplicates(cleaned_data).rows)
                data == drop_duplicates(dropna(cleaned_data))
            IN  /\ exc' = NoExc
                /\ cleaned_data' = data
                /\ ret' = data
                /\ stdout' = stdout \o
                     << <<"Missing values in each column:", missing_values>>,
                        <<"Number of duplicate rows: ", duplicates>>,
                        <<"Fixed duplicates and dropped missing values.",
                          duplicates + missing_values>>,
                        <<"Here's a preview of the cleaned data:",
                          Len(data.rows)>> >>
    /\ firstClean' = IF nCleans = 0 THEN ret' ELSE firstClean

-----------------------------------------------------------------------------
(* BookFetcher *)

HTTP_OK == 200

\* a raise_for_status that never raises
RaisesForStatus_Never(code) == FALSE

\* Response.raise_for_status(): HTTPError for a 4xx or 5xx status, else
\* nothing
RaisesForStatus(code) == 400 <= code /\ code < 600

\* BookFetcher.fetch_books against a response <<code, docs>>
fetch_books(code, docs) ==
    /\ calls' = Append(calls, "fetch_books")
    /\ requests' = requests + 1
    /\ status' = code
    /\ IF code = HTTP_OK
       THEN /\ ret' = PyList(docs)
            /\ exc' = NoExc
            /\ stdout' = stdout \o << <<"Total number of books: ", Len(docs)>>,
                                      <<"Limiting to top 100 books", 0>> >>
       ELSE /\ ret' = NoneObj
            /\ exc' = IF RaisesForStatus(code) THEN HTTPError(code) ELSE NoExc
            /\ UNCHANGED stdout

-----------------------------------------------------------------------------
(* BookDatabase *)

SqlNull == [t |-> "NULL", i |-> 0, s |-> <<>>]

\* a cell as to_sql writes it: a null becomes NULL
SqlCell(v) == IF IsNull(v) THEN SqlNull ELSE v

\* a cell as read_sql reads it: NULL becomes None in a text column and NaN
\* in a numeric one
ReadCell(col, v) ==
    IF v = SqlNull
    THEN IF col \in {"title", "author"} THEN PyNone ELSE NaN
    ELSE v

SqlRow(r) ==
    [title              |-> SqlCell(r.title),
     author             |-> SqlCell(r.author),
     first_publish_year |-> SqlCell(r.first_publish_year),
     rating             |-> SqlCell(r.rating)]

ReadRow(r) ==
    [title              |-> ReadCell("title", r.title),
     author             |-> ReadCell("author", r.author),
     first_publish_year |-> ReadCell("first_publish_year", r.first_publish_year),
     rating             |-> ReadCell("rating", r.rating)]

\* the table 'books' after a to_sql with if_exists="append"
to_sql_append(table, d) ==
    [none |-> FALSE,
     cols |-> IF table.none THEN d.cols ELSE table.cols,
     rows |-> table.rows \o [k \in 1..Len(d.rows) |-> SqlRow(d.rows[k])]]

\* the table 'books' after DataFrame.to_sql("books", engine,
\* if_exists="replace", index=False) succeeded
to_sql_replace(table, d) ==
    [none |-> FALSE,
     cols |-> d.cols,
     rows |-> [k \in 1..Len(d.rows) |-> SqlRow(d.rows[k])]]

\* what a to_sql that failed may leave: the table as it was, the table
\* dropped, or the new table created and not filled
AfterFailedWrite(table, d) ==
    {table, NoneObj, [none |-> FALSE, cols |-> d.cols, rows |-> <<>>]}

\* a handler that raises the exception again
Handled_Reraise(e) == e

\* "except Exception as e: print(...)": the handler ends the exception
Handled(e) == NoExc

\* BookDatabase.save_data; ok: whether the database carries out the write
save_data(ok) ==
    /\ calls' = Append(calls, "save_data")
    /\ ret' = NoneObj
    /\ UNCHANGED db_cleaned_data
    /\ IF db_cleaned_data.none
       THEN \* None has no to_sql: AttributeError, inside the try
            /\ exc' = Handled(Raise("AttributeError"))
            /\ saveOk' = "failed"
            /\ stdout' = stdout \o << <<"Saving data...", 0>>,
                                      <<"Error saving data: ", 0>> >>
            /\ UNCHANGED table_books
       ELSE IF ok
       THEN /\ exc' = NoExc
            /\ saveOk' = "ok"
            /\ table_books' = to_sql_replace(table_books, db_cleaned_data)
            /\ stdout' = stdout \o
                 << <<"Saving data...", 0>>,
                    <<"Data saved successfully! to Azure SQL DB.", 0>> >>
       ELSE /\ exc' = Handled(Raise("Exception"))
            /\ saveOk' = "failed"
            /\ table_books' \in AfterFailedWrite(table_books, db_cleaned_data)
            /\ stdout' = stdout \o << <<"Saving data...", 0>>,
                                      <<"Error saving data: ", 0>> >>

RowOrders(n) == {p \in [1..n -> 1..n] : \A i, j \in 1..n : i # j => p[i] # p[j]}

\* pd.read_sql("SELECT * FROM books", engine): every row of the table, in
\* an order the database chooses
ReadResults(table) ==
    {[none |-> FALSE,
      cols |-> table.cols,
      rows |-> [k \in 1..Len(table.rows) |-> ReadRow(table.rows[p[k]])]] :
        p \in RowOrders(Len(table.rows))}

\* BookDatabase.fetch_data; ok: whether the database carries out the read
fetch_data(ok) ==
    /\ calls' = Append(calls, "fetch_data")
    /\ UNCHANGED storeVars
    /\ IF ok /\ ~table_books.none
       THEN /\ ret' \in ReadResults(table_books)
            /\ exc' = NoExc
            /\ stdout' = stdout \o
                 << <<"Data fetched successfully! from Azure SQL DB.", 0>>,
                    <<"Here's a preview of the fetched data:", Len(ret'.rows)>> >>
       ELSE /\ ret' = NoneObj
            /\ exc' = Handled(Raise("Exception"))
            /\ stdout' = Append(stdout, <<"Error fetching data: ", 0>>)

-----------------------------------------------------------------------------
(* BookVisualizer *)

\* sns.countplot(data=df, x="first_publish_year"): a bar per year, as high
\* as the number of rows of that year
CountPlot(d) ==
    LET years == {d.rows[k].first_publish_year : k \in 1..Len(d.rows)}
    IN  [exists |-> TRUE,
         header |-> <<"Number of Books Published by Year", "Year",
                      "Number of Books">>,
         lines  |-> {<<y, Cardinality({k \in 1..Len(d.rows) :
                                         d.rows[k].first_publish_year = y})>> :
                       y \in {v \in years : ~IsNull(v)}}]

\* BookVisualizer.visualize_data; dir: whether ./visuals exists
visualize_data(dir) ==
    /\ calls' = Append(calls, "visualize_data")
    /\ ret' = NoneObj
    /\ UNCHANGED df
    /\ IF df.none \/ df.cols = <<>>
       THEN \* countplot cannot interpret x without that column
            /\ exc' = Raise("ValueError")
            /\ stdout' = Append(stdout, <<"Visualizing data...", 0>>)
            /\ UNCHANGED countplot_png
       ELSE IF ~dir
       THEN /\ exc' = Raise("FileNotFoundError")
            /\ stdout' = Append(stdout, <<"Visualizing data...", 0>>)
            /\ UNCHANGED countplot_png
       ELSE /\ exc' = NoExc
            /\ countplot_png' = CountPlot(df)
            /\ stdout' = stdout \o
                 << <<"Visualizing data...", 0>>,
                    <<"Countplot saved to ./visuals/countplot.png", 0>> >>

-----------------------------------------------------------------------------
(* Inputs *)

SeqsUpTo(S, n) == UNION {[1..k -> S] : k \in 0..n}

A == StrV(<<"A">>)
B == StrV(<<"B">>)
X == <<"X">>
Y == <<"Y">>

\* raw records as the API may return them: any key may be absent
RawRecords ==
    { [title |-> A, author_name |-> <<X>>, first_publish_year |-> IntV(2000),
       ratings_sortable |-> IntV(5)],
      [title |-> B, author_name |-> <<X, Y>>, first_publish_year |-> IntV(1999),
       ratings_sortable |-> IntV(4)],
      [title |-> B, author_name |-> <<>>, first_publish_year |-> IntV(1999),
       ratings_sortable |-> IntV(0)],
      [author_name |-> <<X>>, first_publish_year |-> IntV(2000),
       ratings_sortable |-> IntV(5)],
      [title |-> A, first_publish_year |-> IntV(2000),
       ratings_sortable |-> IntV(5)],
      [title |-> A, author_name |-> <<X>>, ratings_sortable |-> IntV(5)],
      [title |-> A, author_name |-> <<X>>, first_publish_year |-> IntV(2000)],
      [title |-> A, author_name |-> <<X>>, first_publish_year |-> IntV(2000),
       ratings_sortable |-> IntV(0)],
      [title |-> A, author_name |-> <<X>>, first_publish_year |-> IntV(2000),
       ratings_sortable |-> StrV(<<>>)],
      [title |-> A, author_name |-> <<X>>, first_publish_year |-> IntV(2000),
       ratings_sortable |-> NaN] }

RawLists == SeqsUpTo(RawRecords, MaxBooks)

\* a row an earlier run left in the files and in the table
StaleRow == [title |-> StrV(<<"Z">>), author |-> StrV(<<"W">>),
             first_publish_year |-> IntV(1990), rating |-> IntV(3)]

\* the files before the run: absent, or as an earlier run left them
PriorFiles ==
    { <<NoFile, NoFile>>,
      <<to_csv(DataFrame(<<StaleRow>>)), to_json(DataFrame(<<StaleRow>>))>> }

-----------------------------------------------------------------------------
(* SpecCleaner: cleaner = BookCleaner(raw_books), then any calls *)

\* nothing called, nothing returned, nothing printed yet
Fresh ==
    /\ calls = <<>>
    /\ exc = NoExc
    /\ ret = NoneObj
    /\ stdout = <<>>
    /\ requests = 0
    /\ status = 0

InitCleaner ==
    /\ pc = "cleaner"
    /\ Fresh
    /\ raw_books \in {PyList(l) : l \in RawLists} \cup {NoneObj}
    /\ cleaned_data = NoneObj
    /\ \E f \in PriorFiles : books_csv = f[1] /\ books_json = f[2]
    /\ db_cleaned_data = NoneObj
    /\ table_books = NoneObj
    /\ df = NoneObj
    /\ countplot_png = NoFile
    /\ processed = NoneObj
    /\ firstClean = NoneObj
    /\ nCleans = 0
    /\ nProcess = 0
    /\ saveOk = "none"

CleanerProcess ==
    /\ Len(calls) < MaxCalls
    /\ process_data
    /\ UNCHANGED <<pc, fetchVars, storeVars, vizVars>>

CleanerClean ==
    /\ Len(calls) < MaxCalls
    /\ clean_data
    /\ UNCHANGED <<pc, fetchVars, storeVars, vizVars>>

NextCleaner == CleanerProcess \/ CleanerClean

SpecCleaner == InitCleaner /\ [][NextCleaner]_vars

-----------------------------------------------------------------------------
(* SpecStore: db = BookDatabase(cleaned_data), then any calls *)

Row(title, author, year, rating) ==
    [title |-> title, author |-> author, first_publish_year |-> year,
     rating |-> rating]

StoreRows ==
    { Row(A, StrV(X), IntV(2000), IntV(5)),
      Row(B, StrV(<<"X", ",", " ", "Y">>), IntV(1999), IntV(4)),
      Row(A, StrV(X), IntV(2000), NaN) }

\* the tables a caller may hand to BookDatabase
StoreTables ==
    {DataFrame(rows) : rows \in SeqsUpTo(StoreRows, MaxBooks)}
        \cup {[none |-> FALSE, cols |-> Columns, rows |-> <<>>], NoneObj}

\* the table 'books' before the run: absent, empty, or as earlier runs left it
PriorTables ==
    { NoneObj,
      [none |-> FALSE, cols |-> Columns, rows |-> <<>>],
      [none |-> FALSE, cols |-> Columns, rows |-> <<StaleRow>>],
      [none |-> FALSE, cols |-> Columns,
       rows |-> <<StaleRow, Row(A, StrV(X), IntV(2000), IntV(5))>>] }

InitStore ==
    /\ pc = "store"
    /\ Fresh
    /\ raw_books = NoneObj
    /\ cleaned_data = NoneObj
    /\ books_csv = NoFile
    /\ books_json = NoFile
    /\ db_cleaned_data \in StoreTables
    /\ table_books \in PriorTables
    /\ df = NoneObj
    /\ countplot_png = NoFile
    /\ processed = NoneObj
    /\ firstClean = NoneObj
    /\ nCleans = 0
    /\ nProcess = 0
    /\ saveOk = "none"

StoreSave ==
    /\ Len(calls) < MaxCalls
    /\ \E ok \in BOOLEAN : save_data(ok)
    /\ UNCHANGED <<pc, fetchVars, cleanerVars, cleanerHist, vizVars>>

StoreFetch ==
    /\ Len(calls) < MaxCalls
    /\ \E ok \in BOOLEAN : fetch_data(ok)
    /\ UNCHANGED <<pc, fetchVars, cleanerVars, cleanerHist, vizVars>>

NextStore == StoreSave \/ StoreFetch

SpecStore == InitStore /\ [][NextStore]_vars

-----------------------------------------------------------------------------
(* Spec: one run of main() *)

\* status codes the search endpoint may answer with
Statuses == {200, 204, 304, 404, 500}

Init ==
    /\ pc = "fetch_books"
    /\ Fresh
    /\ raw_books = NoneObj
    /\ cleaned_data = NoneObj
    /\ \E f \in PriorFiles : books_csv = f[1] /\ books_json = f[2]
    /\ db_cleaned_data = NoneObj
    /\ table_books \in PriorTables
    /\ df = NoneObj
    /\ countplot_png = NoFile
    /\ processed = NoneObj
    /\ firstClean = NoneObj
    /\ nCleans = 0
    /\ nProcess = 0
    /\ saveOk = "none"

\* where main() goes after a call: on, or out with the exception
After(next) == IF exc' = NoExc THEN next ELSE "aborted"

\* fetcher = BookFetcher(); raw_books = fetcher.fetch_books()
MainFetchBooks ==
    /\ pc = "fetch_books"
    /\ \E code \in Statuses : \E docs \in RawLists :
          /\ (code # HTTP_OK => docs = <<>>)
          /\ fetch_books(code, docs)
    /\ raw_books' = ret'
    /\ pc' = After("process_data")
    /\ UNCHANGED <<cleaned_data, books_csv, books_json, cleanerHist,
                   storeVars, vizVars>>

\* cleaner = BookCleaner(raw_books); cleaner.process_data()
MainProcessData ==
    /\ pc = "process_data"
    /\ process_data
    /\ pc' = After("clean_data")
    /\ UNCHANGED <<fetchVars, storeVars, vizVars>>

\* cleaned_data = cleaner.clean_data()
MainCleanData ==
    /\ pc = "clean_data"
    /\ clean_data
    /\ pc' = After("BookDatabase")
    /\ UNCHANGED <<fetchVars, storeVars, vizVars>>

\* db = BookDatabase(cleaned_data); env: whether DB_CONN_STRING is set,
\* create_engine(None) raising ArgumentError.  "db.save_data()" is a comment
\* in main(): the next call is db.fetch_data()
MainBookDatabase ==
    /\ pc = "BookDatabase"
    /\ db_cleaned_data' = ret
    /\ \E env \in BOOLEAN :
          exc' = IF env THEN NoExc ELSE Raise("ArgumentError")
    /\ pc' = After("fetch_data")
    /\ UNCHANGED <<calls, ret, stdout, fetchVars, cleanerVars, cleanerHist,
                   table_books, saveOk, vizVars>>

\* df = db.fetch_data()
MainFetchData ==
    /\ pc = "fetch_data"
    /\ \E ok \in BOOLEAN : fetch_data(ok)
    /\ df' = ret'
    /\ pc' = After("visualize_data")
    /\ UNCHANGED <<fetchVars, cleanerVars, cleanerHist, countplot_png>>

\* visualizer = BookVisualizer(df); visualizer.visualize_data()
MainVisualizeData ==
    /\ pc = "visualize_data"
    /\ \E dir \in BOOLEAN : visualize_data(dir)
    /\ pc' = After("done")
    /\ UNCHANGED <<fetchVars, cleanerVars, cleanerHist, storeVars>>

Next ==
    \/ MainFetchBooks
    \/ MainProcessData
    \/ MainCleanData
    \/ MainBookDatabase
    \/ MainFetchData
    \/ MainVisualizeData

Spec == Init /\ [][Next]_vars

-----------------------------------------------------------------------------
(* Properties of BookCleaner, checked under SpecCleaner *)

LastCall == IF calls = <<>> THEN "" ELSE calls[Len(calls)]

Called(method) == \E k \in 1..Len(calls) : calls[k] = method

Keys == {"title", "author_name", "first_publish_year", "ratings_sortable"}

\* the author names of a record, joined with ", " from the left
RECURSIVE JoinedAuthors(_)
JoinedAuthors(names) ==
    IF names = <<>> THEN <<>>
    ELSE IF Len(names) = 1 THEN names[1]
    ELSE JoinedAuthors(SubSeq(names, 1, Len(names) - 1))
            \o <<",", " ">> \o names[Len(names)]

\* a raw record the cleaned table must not hold
Excluded(b) ==
    \/ Keys \ DOMAIN b # {}
    \/ b.author_name = <<>>
    \/ b.ratings_sortable \in {IntV(0), StrV(<<>>)}
    \/ ~Truthy(b.title)
    \/ JoinedAuthors(b.author_name) = <<>>
    \/ ~Truthy(b.first_publish_year)
    \/ ~Truthy(b.ratings_sortable)

Retained(b) == ~Excluded(b)

BookRecordOf(b) ==
    [title              |-> b.title,
     author             |-> StrV(JoinedAuthors(b.author_name)),
     first_publish_year |-> b.first_publish_year,
     rating             |-> b.ratings_sortable]

ExpectedRows(raw) ==
    LET kept == SelectSeq(raw, Retained)
    IN  [k \in 1..Len(kept) |-> BookRecordOf(kept[k])]

C4_CleanBeforeProcessRaises ==
    (LastCall = "clean_data" /\ ~Called("process_data"))
        => /\ exc = Raise("ValueError")
           /\ ret = NoneObj
           /\ cleaned_data = NoneObj
           /\ <<books_csv, books_json>> \in PriorFiles
           /\ stdout = <<>>

C4_Witness ==
    /\ calls = <<"clean_data", "clean_data">>
    /\ exc = Raise("ValueError")
    /\ ~raw_books.none /\ Len(raw_books.rows) = 2

\* C5: after one process_data, the second and every later consecutive
\* clean_data returns the table the first one returned, row for row, and
\* leaves that table in the cleaner.
C5_CleanIdempotent ==
    (LastCall = "clean_data" /\ nCleans >= 2 /\ Called("process_data"))
        => /\ ret = firstClean
           /\ ret.none => exc = Raise("ValueError")
           /\ ~ret.none => (exc = NoExc /\ cleaned_data = firstClean)

C5_Witness ==
    /\ LastCall = "clean_data"
    /\ nCleans >= 2
    /\ exc = NoExc
    /\ Len(firstClean.rows) = 2
    /\ Len(processed.rows) = 3

\* index of the first row of rows equal to r
FirstIndex(rows, r) ==
    CHOOSE i \in 1..Len(rows) :
        rows[i] = r /\ \A j \in 1..(i - 1) : rows[j] # r

\* out is rows without the rows holding a null and without the repeats of
\* an earlier row, the rows kept standing in their original order
NullFreeFirstOccurrences(rows, out) ==
    /\ \A k \in 1..Len(out) : \A c \in 1..4 : ~IsNull(RowCells(out[k])[c])
    /\ \A i, j \in 1..Len(out) : i # j => out[i] # out[j]
    /\ {out[k] : k \in 1..Len(out)}
         = {rows[k] : k \in {n \in 1..Len(rows) :
                               \A c \in 1..4 : ~IsNull(RowCells(rows[n])[c])}}
    /\ \A i, j \in 1..Len(out) :
         i < j => FirstIndex(rows, out[i]) < FirstIndex(rows, out[j])

SpecExampleRaw ==
    << [title |-> A, author_name |-> <<X>>, first_publish_year |-> IntV(2000),
        ratings_sortable |-> IntV(5)],
       [title |-> A, author_name |-> <<X>>, first_publish_year |-> IntV(2000),
        ratings_sortable |-> IntV(5)],
       [title |-> B, author_name |-> <<>>, first_publish_year |-> IntV(1999),
        ratings_sortable |-> IntV(0)] >>

\* C6: the table clean_data returns is the processed table without the rows
\* that hold a null and then without the repeats of an earlier row, first
\* occurrences kept in their order: no cell of it is null, no two rows of it
\* are equal; two identical valid records and one record with no author and
\* rating 0 give exactly one row.
C6_CleanDropsNullsAndDuplicates ==
    (LastCall = "clean_data" /\ exc = NoExc)
        => /\ ret = cleaned_data
           /\ ~ret.none
           /\ ret.cols = processed.cols
           /\ NullFreeFirstOccurrences(processed.rows, ret.rows)
           /\ raw_books.rows = SpecExampleRaw
                => ret.rows = << [title |-> A, author |-> StrV(X),
                                  first_publish_year |-> IntV(2000),
                                  rating |-> IntV(5)] >>

C6_Witness ==
    /\ LastCall = "clean_data"
    /\ exc = NoExc
    /\ Len(processed.rows) = 3
    /\ \E k \in 1..3 : HasNull(processed.rows[k])
    /\ \E i, j \in 1..3 : i < j /\ processed.rows[i] = processed.rows[j]
                               /\ ~HasNull(processed.rows[i])
    /\ Len(ret.rows) = 1

\* C10: when process_data returns, for any list of raw records, the empty
\* one included, the table is set and books.csv and books.json hold exactly
\* its rows, nothing of an earlier run.
C10_ProcessSetsTableAndFiles ==
    (LastCall = "process_data" /\ ~raw_books.none)
        => /\ exc = NoExc
           /\ ~cleaned_data.none
           /\ books_csv = to_csv(cleaned_data)
           /\ books_json = to_json(cleaned_data)

-----------------------------------------------------------------------------
(* Properties of BookDatabase, checked under SpecStore *)

LastPrinted == IF stdout = <<>> THEN "" ELSE stdout[Len(stdout)][1]

\* a row with its nulls told apart from its values only
NullAsNone(r) ==
    [c \in 1..4 |-> IF IsNull(RowCells(r)[c]) THEN PyNone ELSE RowCells(r)[c]]

Occurrences(rows, r) ==
    Cardinality({k \in 1..Len(rows) : NullAsNone(rows[k]) = r})

\* the two tables hold the same rows, each as many times, in any order
SameRows(rows1, rows2) ==
    /\ Len(rows1) = Len(rows2)
    /\ \A k \in 1..Len(rows1) :
          Occurrences(rows1, NullAsNone(rows1[k]))
              = Occurrences(rows2, NullAsNone(rows1[k]))

\* C7: whatever table 'books' held before, a table read by fetch_data after
\* a save_data that succeeded holds exactly the rows of the saved table, in
\* some order: none of the earlier content, none lost, none merged.
C7_SaveFetchRoundTrip ==
    (LastCall = "fetch_data" /\ saveOk = "ok" /\ ~ret.none)
        => /\ SameRows(ret.rows, db_cleaned_data.rows)
           /\ ret.cols = db_cleaned_data.cols
           /\ \A k \in 1..Len(ret.rows) : ret.rows[k] # StaleRow

C7_Witness ==
    /\ calls = <<"save_data", "fetch_data">>
    /\ saveOk = "ok"
    /\ ~ret.none
    /\ Len(ret.rows) = 3
    /\ ret.rows # db_cleaned_data.rows
    /\ \E i, j \in 1..3 : i # j /\ ret.rows[i] = ret.rows[j]

-----------------------------------------------------------------------------
(* Properties of main() and of BookFetcher, checked under Spec *)

\* C1: on every status other than 200, the codes that are no errors (204,
\* 304) included, fetch_books raises an HTTPError carrying the status, after
\* exactly one request, and does not return.
C1_NonOkStatusRaises ==
    (Called("fetch_books") /\ status # HTTP_OK)
        => /\ requests = 1
           /\ calls = <<"fetch_books">>
           /\ exc = HTTPError(status)
           /\ pc = "aborted"

\* C2: a run of main() that succeeds has called, in this order,
\* fetch_books, process_data, clean_data, save_data, fetch_data and
\* visualize_data, the store holding the table clean_data returned and the
\* visualizer the table fetch_data returned.
C2_StagesInOrder ==
    pc = "done"
        => /\ calls = <<"fetch_books", "process_data", "clean_data",
                        "save_data", "fetch_data", "visualize_data">>
           /\ db_cleaned_data = cleaned_data
           /\ saveOk # "none"
           /\ ~df.none

StageOrder ==
    <<"fetch_books", "process_data", "clean_data", "fetch_data",
      "visualize_data">>

\* C9: a failure of the Fetcher or of the Cleaner ends the run: the
\* exception leaves main() and no later stage is called.  After a 404 (or
\* any status fetch_books raises on) fetch_books is the only call made and
\* nothing downstream has run; whenever a stage has raised, it is the last
\* stage called and main() takes no further step.
C9_FailureAborts ==
    /\ (Called("fetch_books") /\ status \in {404, 500})
          => /\ pc = "aborted"
             /\ exc = HTTPError(status)
             /\ calls = <<"fetch_books">>
             /\ cleaned_data.none /\ db_cleaned_data.none /\ df.none
             /\ <<books_csv, books_json>> \in PriorFiles
             /\ table_books \in PriorTables
             /\ countplot_png = NoFile
    /\ (LastCall \in {"fetch_books", "process_data", "clean_data"}
            /\ exc # NoExc)
          => /\ pc = "aborted"
             /\ ~Called("fetch_data") /\ ~Called("visualize_data")
    /\ (LastCall = "fetch_books" /\ exc # NoExc) => ~Called("process_data")
    /\ (LastCall = "process_data" /\ exc # NoExc) => ~Called("clean_data")
    /\ pc = "aborted" => (exc # NoExc /\ ~ENABLED Next)
    /\ calls = SubSeq(StageOrder, 1, Len(calls))

C9_Witness ==
    /\ status = 404
    /\ pc = "aborted"
    /\ exc = HTTPError(404)
    /\ Len(table_books.rows) = 2

=============================================================================
